---- MODULE Spec2Model ----
(***************************************************************************)
(* Model of the PDF date changer: the interactive batch program            *)
(* (src/program_10/main.py) and the single-file command line program       *)
(* (src/src-tauri/pdf_date_replacer.py).                                   *)
(*                                                                         *)
(* Strings (paths, file names, page text, dates) are sequences of          *)
(* one-character strings, so that slicing, suffix tests, substring tests   *)
(* and the regular expression are computed character by character.        *)
(* A PDF file is a record: the extracted text of its last page, whether    *)
(* the library can locate that text visually, and whether the file is      *)
(* unreadable.  A rectangle returned by the visual search is identified by *)
(* the text offset of the occurrence it covers.                            *)
(***************************************************************************)
EXTENDS Naturals, Sequences, FiniteSets

\* ------------------------------------------------------------- bounds
MaxFiles == 2       \* files initially present in the populated folder
MaxSegs == 2        \* segments a last-page text is assembled from
MaxStarts == 2      \* presses of Start that create a worker
MaxCalls == 1       \* calls of process_pdf, over all workers
MaxCliRuns == 1     \* invocations of the command line program

\* ------------------------------------------------------ string helpers
\* str.lower() on the characters the file names are made of
LowerChar(c) ==
  CASE c = "P" -> "p"
    [] c = "D" -> "d"
    [] c = "F" -> "f"
    [] OTHER -> c

Lower(s) == [i \in 1..Len(s) |-> LowerChar(s[i])]

\* s.endswith(suffix)
EndsWith(s, suffix) ==
  /\ Len(s) >= Len(suffix)
  /\ SubSeq(s, Len(s) - Len(suffix) + 1, Len(s)) = suffix

\* the offsets at which needle occurs in s (overlapping occurrences included)
Occurrences(s, needle) ==
  {i \in 1..Len(s) : /\ needle # <<>>
                     /\ i + Len(needle) - 1 <= Len(s)
                     /\ SubSeq(s, i, i + Len(needle) - 1) = needle}

\* needle in s
Contains(s, needle) == needle = <<>> \/ Occurrences(s, needle) # {}

SlashAt(p) == {i \in 1..Len(p) : p[i] = "/"}

\* os.path.basename
Basename(p) ==
  IF SlashAt(p) = {} THEN p
  ELSE LET k == CHOOSE i \in SlashAt(p) : \A j \in SlashAt(p) : j <= i
       IN SubSeq(p, k + 1, Len(p))

\* os.path.join(subdir, file)
Join(subdir, file) == subdir \o <<"/">> \o file

\* ------------------------------------------------- the date expression
DateLen == 10

Digits == {"0", "1", "2", "3", "4", "5", "6", "7", "8", "9"}

IsDigit(c) == c \in Digits

IsSep(c) == c \in {".", "/"}

\* r'(\d{2}[./]\d{2}[./]\d{4})' matched at offset i of text
MatchesAt(text, i) ==
  /\ i + DateLen - 1 <= Len(text)
  /\ \A k \in {0, 1, 3, 4, 6, 7, 8, 9} : IsDigit(text[i + k])
  /\ IsSep(text[i + 2])
  /\ IsSep(text[i + 5])

\* list(re.finditer(date_pattern, text)): the start offsets of the
\* non-overlapping matches, scanning left to right from offset i
RECURSIVE FindIter(_, _)
FindIter(text, i) ==
  IF i + DateLen - 1 > Len(text) THEN <<>>
  ELSE IF MatchesAt(text, i) THEN <<i>> \o FindIter(text, i + DateLen)
  ELSE FindIter(text, i + 1)

\* match.group(0)
Group(text, i) == SubSeq(text, i, i + DateLen - 1)

\* ------------------------------------------------------------ documents
D1 == <<"0", "1", ".", "0", "3", ".", "2", "0", "2", "4">>
D2 == <<"1", "5", "/", "0", "3", "/", "2", "0", "2", "4">>
Rep == <<".", "0", "3", ".", "2", "0", "2", "4",
         ".", "0", "3", ".", "2", "0", "2", "4">>
NewDate == <<"2", "0", ".", "0", "3", ".", "2", "0", "2", "5">>

Segs == {D1, D2, Rep}

RECURSIVE Flatten(_)
Flatten(ss) == IF ss = <<>> THEN <<>> ELSE Head(ss) \o Flatten(Tail(ss))

\* the last-page texts: up to MaxSegs segments, concatenated
Texts == {Flatten(ss) : ss \in UNION {[1..n -> Segs] : n \in 0..MaxSegs}}

\* a file that cannot be parsed as a document
Corrupt == [text |-> <<>>, visual |-> FALSE, corrupt |-> TRUE]

\* readable documents: a text, drawn at locatable positions or not
Docs == {[text |-> t, visual |-> v, corrupt |-> FALSE] :
           t \in Texts, v \in BOOLEAN}

\* the document of the specification's example: two dates, the last one
\* the target
PlainDoc == [text |-> D1 \o D2, visual |-> TRUE, corrupt |-> FALSE]

\* ---------------------------------------------------------- file system
\* fs maps each existing path to the content of the file
Exists(f, p) == p \in DOMAIN f

WriteFile(f, p, c) == [q \in DOMAIN f \cup {p} |-> IF q = p THEN c ELSE f[q]]

RemoveFile(f, p) == [q \in DOMAIN f \ {p} |-> f[q]]

ContentOf(f, p) == IF Exists(f, p) THEN <<f[p]>> ELSE <<>>

FolderD == <<"d">>
NameA == <<"a", ".", "p", "d", "f">>
NameANew == <<"a", "_", "n", "e", "w", ".", "p", "d", "f">>
NameUpper == <<"a", ".", "P", "D", "F">>
NameTxt == <<"b", ".", "t", "x", "t">>
Names == {NameA, NameANew, NameUpper, NameTxt}

\* the files under root, as os.walk reports them (full paths)
UnderRoot(f, root) ==
  {p \in DOMAIN f : /\ Len(p) > Len(root) + 1
                    /\ SubSeq(p, 1, Len(root) + 1) = root \o <<"/">>}

\* ------------------------------------------- the replacement procedure
\* fitz.open(pdf_path) succeeds
CanOpen(f, pdf_path) == Exists(f, pdf_path) /\ ~f[pdf_path].corrupt

\* page.get_text() of the last page
GetText(doc) == doc.text

\* a faulty variant: the first date of the page instead of the last
LastMatchAlt(matches) == matches[1]

\* matches[-1]
LastMatch(matches) == matches[Len(matches)]

\* the hits of a text search: each hit is looked for from the end of the
\* previous one, in page order
RECURSIVE Hits(_, _, _)
Hits(text, needle, i) ==
  IF needle = <<>> \/ i + Len(needle) - 1 > Len(text) THEN <<>>
  ELSE IF SubSeq(text, i, i + Len(needle) - 1) = needle
  THEN <<i>> \o Hits(text, needle, i + Len(needle))
  ELSE Hits(text, needle, i + 1)

\* page.search_for(old_date): the rectangles of the hits, none when the
\* text is not drawn at locatable positions
SearchFor(doc, old_date) ==
  IF doc.visual THEN Hits(doc.text, old_date, 1) ELSE <<>>

\* rects[-1]
EditSite(rects) == rects[Len(rects)]

\* page.add_redact_annot(rect, fill=(1,1,1)); page.apply_redactions():
\* the glyphs under the rectangle are removed from the page content
ApplyRedaction(doc, rect) ==
  [doc EXCEPT !.text = SubSeq(doc.text, 1, rect - 1)
                        \o SubSeq(doc.text, rect + DateLen, Len(doc.text))]

\* page.insert_text(point, new_date, ...): the new text is appended to the
\* page content
InsertText(doc, new_date) == [doc EXCEPT !.text = doc.text \o new_date]

\* a faulty variant: the output is saved over the original
NewPathAlt(pdf_path) == pdf_path

\* pdf_path[:-4] + '_new.pdf'
NewPath(pdf_path) ==
  (IF Len(pdf_path) >= 4 THEN SubSeq(pdf_path, 1, Len(pdf_path) - 4) ELSE <<>>)
    \o <<"_", "n", "e", "w", ".", "p", "d", "f">>

\* what one invocation of the procedure did, as observed from outside
Outcome(entry, owner, f, g, pdf_path, expected, delete_original, opened, matches, found, rects, redacted, inserted, ev, raised, ok, out, code) ==
  [entry |-> entry, owner |-> owner, path |-> pdf_path, expected |-> expected,
   del |-> delete_original, opened |-> opened, matches |-> matches,
   found |-> found, rects |-> rects, redacted |-> redacted,
   inserted |-> inserted, events |-> ev, raised |-> raised, ok |-> ok,
   out |-> out, exit |-> code, new_path |-> NewPath(pdf_path),
   text |-> IF CanOpen(f, pdf_path) THEN f[pdf_path].text ELSE <<>>,
   before |-> ContentOf(f, pdf_path), after |-> ContentOf(g, pdf_path),
   outBefore |-> ContentOf(f, NewPath(pdf_path)),
   outAfter |-> ContentOf(g, NewPath(pdf_path)),
   fs |-> g]

\* main.py: the lines after doc.close() run when nothing above raised
GuiRemoves(saved, delete_original) == saved /\ delete_original

\* PDFDateChangerThread.process_pdf.  saveOk and removeOk are the outcomes
\* of doc.save and os.remove, which the environment decides.
process_pdf(owner, f, pdf_path, new_date, delete_original, saveOk, removeOk) ==
  IF ~CanOpen(f, pdf_path)
  THEN Outcome("gui", owner, f, f, pdf_path, <<>>, delete_original, FALSE,
               <<>>, <<>>, <<>>, <<>>, <<>>, <<"open_raised">>, TRUE, FALSE,
               <<>>, 0)
  ELSE
    LET doc == f[pdf_path]
        text == GetText(doc)
        matches == FindIter(text, 1)
        old_date == IF matches # <<>> THEN Group(text, LastMatch(matches))
                    ELSE <<>>
        rects == IF matches # <<>> THEN SearchFor(doc, old_date) ELSE <<>>
        edits == rects # <<>>
        rect == IF edits THEN EditSite(rects) ELSE 0
        page == IF edits THEN InsertText(ApplyRedaction(doc, rect), new_date)
                ELSE doc
        new_path == NewPath(pdf_path)
        f1 == IF saveOk THEN WriteFile(f, new_path, page) ELSE f
        removes == GuiRemoves(saveOk, delete_original)
        f2 == IF removes /\ removeOk /\ Exists(f1, pdf_path)
              THEN RemoveFile(f1, pdf_path) ELSE f1
        ev == <<"open">>
              \o (IF edits THEN <<"redact", "insert">> ELSE <<>>)
              \o (IF saveOk THEN <<"save", "close">> ELSE <<"save_raised">>)
              \o (IF removes
                  THEN (IF removeOk THEN <<"remove">> ELSE <<"remove_failed">>)
                  ELSE <<>>)
    IN Outcome("gui", owner, f, f2, pdf_path, <<>>, delete_original, TRUE,
               matches, old_date, rects,
               IF edits THEN <<rect>> ELSE <<>>,
               IF edits THEN <<new_date>> ELSE <<>>,
               ev, ~saveOk, saveOk, <<>>, 0)

\* a faulty variant: the last date is replaced whatever it is
DateMatchesAlt(found_old_date, old_date) == TRUE

\* found_old_date == old_date
DateMatches(found_old_date, old_date) == found_old_date = old_date

\* replace_date_in_pdf: every branch of the function, with the except
\* clause that turns an exception into (False, None).  The console is taken
\* to accept what is printed.
replace_date_in_pdf(f, pdf_path, old_date, new_date, saveOk) ==
  IF ~CanOpen(f, pdf_path)
  THEN Outcome("cli", 0, f, f, pdf_path, old_date, FALSE, FALSE,
               <<>>, <<>>, <<>>, <<>>, <<>>, <<"open_raised">>, TRUE, FALSE,
               <<"ERROR: exception">>, 1)
  ELSE
    LET doc == f[pdf_path]
        text == GetText(doc)
        matches == FindIter(text, 1)
        found == IF matches # <<>> THEN Group(text, LastMatch(matches))
                 ELSE <<>>
        same == matches # <<>> /\ DateMatches(found, old_date)
        rects == IF same THEN SearchFor(doc, old_date) ELSE <<>>
        edits == rects # <<>>
        rect == IF edits THEN EditSite(rects) ELSE 0
        page == IF edits THEN InsertText(ApplyRedaction(doc, rect), new_date)
                ELSE doc
        new_path == NewPath(pdf_path)
        saved == edits /\ saveOk
        f1 == IF saved THEN WriteFile(f, new_path, page) ELSE f
        ev == <<"open">>
              \o (IF edits THEN <<"redact", "insert">> ELSE <<>>)
              \o (IF edits
                  THEN (IF saveOk THEN <<"save", "close">>
                        ELSE <<"save_raised">>)
                  ELSE <<"close">>)
        out == CASE matches = <<>> -> <<"ERROR: No dates found on last page">>
                 [] matches # <<>> /\ ~same -> <<"ERROR: Expected date">>
                 [] same /\ ~edits -> <<"ERROR: not found visually">>
                 [] edits /\ ~saveOk -> <<"ERROR: exception">>
                 [] OTHER -> <<"SUCCESS: Date replaced", "SAVED">>
    IN Outcome("cli", 0, f, f1, pdf_path, old_date, FALSE, TRUE,
               matches, found, rects,
               IF edits THEN <<rect>> ELSE <<>>,
               IF edits THEN <<new_date>> ELSE <<>>,
               ev, edits /\ ~saveOk, saved, out, IF saved THEN 0 ELSE 1)

\* a faulty variant: the original is removed whether or not the save succeeded
CliRemovesAlt(success, delete_original) == delete_original

\* pdf_date_replacer.py main: "if success: ... if args.delete_original:"
CliRemoves(success, delete_original) == success /\ delete_original

\* pdf_date_replacer.py main, from the parsed arguments to sys.exit
main(f, pdf_path, old_date, new_date, delete_original, saveOk, removeOk) ==
  IF ~Exists(f, pdf_path)
  THEN Outcome("cli", 0, f, f, pdf_path, old_date, delete_original, FALSE,
               <<>>, <<>>, <<>>, <<>>, <<>>, <<>>, FALSE, FALSE,
               <<"ERROR: PDF file not found">>, 1)
  ELSE
    LET r == replace_date_in_pdf(f, pdf_path, old_date, new_date, saveOk)
        removes == CliRemoves(r.ok, delete_original)
        g == IF removes /\ removeOk /\ Exists(r.fs, pdf_path)
             THEN RemoveFile(r.fs, pdf_path) ELSE r.fs
    IN [r EXCEPT
          !.del = delete_original,
          !.fs = g,
          !.after = ContentOf(g, pdf_path),
          !.outAfter = ContentOf(g, NewPath(pdf_path)),
          !.events = r.events
             \o (IF removes
                 THEN (IF removeOk THEN <<"remove">> ELSE <<"remove_failed">>)
                 ELSE <<>>),
          !.out = r.out
             \o (IF r.ok THEN <<"SUCCESS: PDF processed successfully">>
                 ELSE <<"FAILED: Could not process PDF">>)
             \o (IF removes
                 THEN (IF removeOk THEN <<"DELETED">> ELSE <<"WARNING">>)
                 ELSE <<>>)]

\* a document the invocation opened and did not close
Leaked(r) ==
  /\ r.opened
  /\ \A i \in 1..Len(r.events) : r.events[i] # "close"

\* ------------------------------------------------------------- state
VARIABLES
  entry,      \* which program runs: "gui" (main.py) or "cli"
  fs,         \* the file system
  folder,     \* MainWindow.folder (<<>> is None)
  checked,    \* MainWindow.delete_checkbox as the user set it
  worker,     \* MainWindow.worker: index into threads (0 is None)
  threads,    \* the PDFDateChangerThread objects created so far
  openDocs,   \* documents opened and not closed: <<owner, path>>
  last,       \* the most recent invocation of the procedure
  written,    \* paths the program has saved an output to
  deleted,    \* paths the program has removed
  app,        \* "running" or "aborted" (the interactive process)
  calls       \* invocations of the replacement procedure so far

vars == <<entry, fs, folder, checked, worker, threads, openDocs, last, written,
          deleted, app, calls>>

\* the texts of the status signal ("Файлы не найдены!", "Готово!",
\* "Обработка: <name>")
StatusNoFiles == <<"Files not found!">>
StatusDone == <<"Done!">>
StatusProcessing(name) == <<"Processing:", name>>

NoLast ==
  Outcome("none", 0, <<>>, <<>>, <<>>, <<>>, FALSE, FALSE, <<>>, <<>>, <<>>,
          <<>>, <<>>, <<>>, FALSE, FALSE, <<>>, 0)

\* the folder holds one document of any content, or at most MaxFiles files
\* under different names, each a copy of the example document or unreadable
InitialFs ==
  {[p \in {Join(FolderD, NameA)} |-> doc] : doc \in Docs}
  \cup
  {[p \in {Join(FolderD, n) : n \in present} |->
      IF Basename(p) \in bad THEN Corrupt ELSE PlainDoc] :
     present \in {S \in SUBSET Names : Cardinality(S) <= MaxFiles},
     bad \in SUBSET Names}

Init ==
  /\ entry \in {"gui", "cli"}
  /\ fs \in InitialFs
  /\ folder = <<>>
  /\ checked \in BOOLEAN
  /\ worker = 0
  /\ threads = <<>>
  /\ openDocs = {}
  /\ last = NoLast
  /\ written = {}
  /\ deleted = {}
  /\ app = "running"
  /\ calls = 0

\* ------------------------------------------------------------ the form
GuiReady == entry = "gui" /\ app = "running"

\* MainWindow.select_folder: the dialog returns a folder, or "" on cancel
select_folder(chosen) ==
  /\ GuiReady
  /\ folder' = IF chosen # <<>> THEN chosen ELSE folder
  /\ UNCHANGED <<entry, fs, checked, worker, threads, openDocs, last, written, deleted,
                 app, calls>>

\* str.strip() of the keyword field
RECURSIVE Strip(_)
Strip(s) ==
  IF s = <<>> THEN s
  ELSE IF Head(s) = " " THEN Strip(Tail(s))
  ELSE IF s[Len(s)] = " " THEN Strip(SubSeq(s, 1, Len(s) - 1))
  ELSE s

\* PDFDateChangerThread.__init__, and the thread's position in run.
\* files is pdf_files as a set and todo the part of it the loop has not
\* reached: the order in which the walk listed the files is decided as the
\* loop consumes the list.
NewThread(root, new_date, keyword, delete_original) ==
  [pc |-> "start", root |-> root, new_date |-> new_date, keyword |-> keyword,
   del |-> delete_original, files |-> {}, todo |-> {}, idx |-> 0,
   signals |-> <<>>]

\* MainWindow.start_processing with the keyword field and the checkbox as
\* the user left them; the two warnings return without creating a worker
start_processing(keyword_text) ==
  /\ GuiReady
  /\ IF folder = <<>> \/ Strip(keyword_text) = <<>>
     THEN UNCHANGED <<worker, threads>>
     ELSE /\ Len(threads) < MaxStarts
          /\ threads' = Append(threads,
                               NewThread(folder, NewDate, Strip(keyword_text),
                                         checked))
          /\ worker' = Len(threads) + 1
  /\ UNCHANGED <<entry, fs, folder, checked, openDocs, last, written, deleted, app,
                 calls>>

\* ---------------------------------------------------------- the worker
\* file.lower().endswith('.pdf') and self.keyword in file
Accepts(file, keyword) ==
  /\ EndsWith(Lower(file), <<".", "p", "d", "f">>)
  /\ Contains(file, keyword)

\* the paths the walk of root_folder collects
Candidates(f, root, keyword) ==
  {p \in UnderRoot(f, root) : Accepts(Basename(p), keyword)}

\* int((idx + 1) / total * 100); exact for the totals the model reaches
Percent(done, total) == (done * 100) \div total

HasEvent(r, e) == \E i \in 1..Len(r.events) : r.events[i] = e

\* the thread object is destroyed when run returns and the form no longer
\* refers to it; Qt may then end the process
EndOfRun(w, crash) == IF worker # w /\ crash THEN "aborted" ELSE app

\* PDFDateChangerThread.run up to the loop: the walk, in the order the
\* file system lists the files, and the "no files" exit
run_enumerate(w, crash) ==
  /\ GuiReady
  /\ w \in 1..Len(threads)
  /\ threads[w].pc = "start"
  /\ LET files == Candidates(fs, threads[w].root, threads[w].keyword)
     IN
       IF files = {}
       THEN /\ threads' = [threads EXCEPT
                             ![w].pc = "done",
                             ![w].signals = @ \o <<<<"status", StatusNoFiles>>,
                                                   <<"progress", 0>>,
                                                   <<"finished">>>>]
            /\ app' = EndOfRun(w, crash)
       ELSE /\ threads' = [threads EXCEPT ![w].pc = "loop",
                                          ![w].files = files,
                                          ![w].todo = files]
            /\ UNCHANGED app
  /\ UNCHANGED <<entry, fs, folder, checked, worker, openDocs, last, written, deleted,
                 calls>>

\* one iteration of the loop of run: the status signal, process_pdf, the
\* progress signal.  An exception leaves run; PyQt ends the process on an
\* exception that escapes run.
run_process(w, pdf_path, saveOk, removeOk) ==
  /\ GuiReady
  /\ w \in 1..Len(threads)
  /\ threads[w].pc = "loop"
  /\ pdf_path \in threads[w].todo
  /\ calls < MaxCalls
  /\ LET t == threads[w]
     IN \E r \in {process_pdf(w, fs, pdf_path, t.new_date, t.del, saveOk,
                              removeOk)} :
        /\ fs' = r.fs
        /\ last' = [r EXCEPT !.fs = <<>>]
        /\ openDocs' = IF Leaked(r) THEN openDocs \cup {<<w, pdf_path>>}
                       ELSE openDocs
        /\ written' = IF HasEvent(r, "save")
                      THEN written \cup {NewPath(pdf_path)} ELSE written
        /\ deleted' = IF HasEvent(r, "remove")
                      THEN deleted \cup {pdf_path} ELSE deleted
        /\ threads' = [threads EXCEPT
             ![w].pc = IF r.raised THEN "raised" ELSE "loop",
             ![w].idx = IF r.raised THEN @ ELSE @ + 1,
             ![w].todo = @ \ {pdf_path},
             ![w].signals = @
                \o <<<<"status", StatusProcessing(Basename(pdf_path))>>>>
                \o (IF r.raised THEN <<>>
                    ELSE <<<<"progress",
                             Percent(t.idx + 1, Cardinality(t.files))>>>>)]
        /\ app' = IF r.raised THEN "aborted" ELSE app
  /\ calls' = calls + 1
  /\ UNCHANGED <<entry, folder, checked, worker>>

\* the end of run after the loop
run_finish(w, crash) ==
  /\ GuiReady
  /\ w \in 1..Len(threads)
  /\ threads[w].pc = "loop"
  /\ threads[w].todo = {}
  /\ threads' = [threads EXCEPT
                   ![w].pc = "done",
                   ![w].signals = @ \o <<<<"status", StatusDone>>,
                                         <<"finished">>>>]
  /\ app' = EndOfRun(w, crash)
  /\ UNCHANGED <<entry, fs, folder, checked, worker, openDocs, last, written, deleted,
                 calls>>

\* ------------------------------------------------- the command line run
cli_main(pdf_path, old_date, new_date, delete_original, saveOk, removeOk) ==
  /\ entry = "cli"
  /\ calls < MaxCliRuns
  /\ \E r \in {main(fs, pdf_path, old_date, new_date, delete_original,
                    saveOk, removeOk)} :
        /\ fs' = r.fs
        /\ last' = [r EXCEPT !.fs = <<>>]
        /\ openDocs' = IF Leaked(r) THEN openDocs \cup {<<0, pdf_path>>}
                       ELSE openDocs
        /\ written' = IF HasEvent(r, "save")
                      THEN written \cup {NewPath(pdf_path)} ELSE written
        /\ deleted' = IF HasEvent(r, "remove")
                      THEN deleted \cup {pdf_path} ELSE deleted
  /\ calls' = calls + 1
  /\ UNCHANGED <<entry, folder, checked, worker, threads, app>>

Keywords == {<<" ">>, <<"a">>}
CliPaths == {Join(FolderD, n) : n \in Names}
OldDates == {D1, D2}

Next ==
  \/ \E chosen \in {<<>>, FolderD} : select_folder(chosen)
  \/ \E k \in Keywords : start_processing(k)
  \/ \E w \in 1..MaxStarts, crash \in BOOLEAN : run_enumerate(w, crash)
  \/ \E w \in 1..MaxStarts, p \in DOMAIN fs, s, r \in BOOLEAN :
       run_process(w, p, s, r)
  \/ \E w \in 1..MaxStarts, crash \in BOOLEAN : run_finish(w, crash)
  \/ \E p \in CliPaths, o \in OldDates, d, s, r \in BOOLEAN :
       cli_main(p, o, NewDate, d, s, r)

Spec == Init /\ [][Next]_vars

\* ------------------------------------------------------------- claims
InSeq(q, x) == \E i \in 1..Len(q) : q[i] = x

Range(q) == {q[i] : i \in 1..Len(q)}

MaxOf(S) == CHOOSE x \in S : \A y \in S : y <= x

Ran == last.entry # "none"

\* os.path.splitext of the path: the extension starts at the last dot of
\* the file name
DotsOf(p) == {i \in 1..Len(p) : p[i] = "." /\ \A j \in SlashAt(p) : j < i}
StemOf(p) == IF DotsOf(p) = {} THEN p ELSE SubSeq(p, 1, MaxOf(DotsOf(p)) - 1)
ExtOf(p) == IF DotsOf(p) = {} THEN <<>> ELSE SubSeq(p, MaxOf(DotsOf(p)), Len(p))

Running(w) == threads[w].pc \in {"start", "loop"}

Count(q, x) == Cardinality({i \in 1..Len(q) : q[i] = x})

\* C1: in both entry points, a document whose last page holds no date token
\* ends in a failure and no output file is written for it.
C1_NoDateNoOutput ==
  (Ran /\ last.opened /\ last.matches = <<>>)
    => /\ ~last.ok
       /\ ~HasEvent(last, "save")
       /\ last.outAfter = last.outBefore

\* C2: command line: when old_date differs from the last date token of the
\* last page, the mismatch is reported, the document is not edited, no
\* output is written, the exit code is 1 and the original still exists,
\* also with --delete-original.
C2_DateMismatch ==
  (last.entry = "cli" /\ last.opened /\ last.matches # <<>>
     /\ last.found # last.expected)
    => /\ InSeq(last.out, "ERROR: Expected date")
       /\ last.redacted = <<>>
       /\ last.inserted = <<>>
       /\ ~HasEvent(last, "save")
       /\ last.outAfter = last.outBefore
       /\ last.exit = 1
       /\ ~HasEvent(last, "remove")
       /\ last.after = last.before
       /\ last.after # <<>>

C2_Witness ==
  /\ last.entry = "cli"
  /\ last.opened
  /\ last.matches # <<>>
  /\ last.found # last.expected
  /\ last.del
  /\ last.exit = 1

\* C3 as stated: with the delete flag set and the replacement successful
\* the original no longer exists when processing ends; with the flag unset
\* processing leaves the original as it was.
C3_DeletedWhenFlagged ==
  Ran => /\ (last.del /\ last.ok => last.after = <<>>)
         /\ (~last.del => last.after = last.before)

\* C3 as amended: with the delete flag set and the replacement successful
\* the removal of the original is attempted, and the original no longer
\* exists unless that removal fails; with the flag unset processing leaves
\* the original as it was.
C3_BestEffortDelete ==
  Ran => /\ (last.del /\ last.ok
               => HasEvent(last, "remove") \/ HasEvent(last, "remove_failed"))
         /\ (last.del /\ last.ok /\ ~HasEvent(last, "remove_failed")
               => last.after = <<>>)
         /\ (~last.del => last.after = last.before)

C3_Witness ==
  /\ last.entry = "gui"
  /\ last.del
  /\ last.ok
  /\ last.redacted # <<>>
  /\ last.before # <<>>
  /\ last.after = <<>>

\* C4: no invocation of the procedure ends with a document still open.
C4_AllClosed == openDocs = {}

\* C5: never are two workers running at the same time.
C5_OneActiveRun ==
  Cardinality({w \in 1..Len(threads) : Running(w)}) <= 1

\* C6: a run that has ended has attempted every enumerated file and has
\* emitted finished exactly once, after "no files" or "done".
C6_RunCompletes ==
  \A w \in 1..Len(threads) :
    threads[w].pc \in {"done", "raised"}
      => /\ threads[w].todo = {}
         /\ Count(threads[w].signals, <<"finished">>) = 1
         /\ \/ InSeq(threads[w].signals, <<"status", StatusNoFiles>>)
            \/ InSeq(threads[w].signals, <<"status", StatusDone>>)

\* where the text at offset o of the page is found in the saved output,
\* given the redacted rectangle
Shifted(o, site) == IF o > site THEN o - DateLen ELSE o

Overlaps(o, site) == o + DateLen > site /\ site + DateLen > o

\* the part of C7 that does not depend on what the rectangles cover
OneEdit ==
  /\ last.found = Group(last.text, MaxOf(Range(last.matches)))
  /\ Len(last.redacted) <= 1
  /\ Len(last.inserted) = Len(last.redacted)
  /\ (last.rects # <<>> => last.redacted = <<last.rects[Len(last.rects)]>>)

C8_OutputPath ==
  (Ran /\ HasEvent(last, "save"))
    => last.new_path
         = StemOf(last.path) \o <<"_", "n", "e", "w">> \o ExtOf(last.path)

\* C9: in a batch, the output written for one enumerated file is never the
\* path of another file of the enumerated set.
C9_NoCrossFile ==
  (last.entry = "gui" /\ HasEvent(last, "save"))
    => last.new_path \notin threads[last.owner].files

\* C10: an original is removed only with the delete flag set, after the
\* output of the same document was saved and the document closed; a failed
\* or raising procedure leaves the original; every original the program
\* deleted has had its output written.
C10_RemoveAfterSave ==
  /\ \A k \in 1..Len(last.events) :
       last.events[k] \in {"remove", "remove_failed"}
         => /\ last.del
            /\ \E i, j \in 1..Len(last.events) :
                 /\ i < j
                 /\ j < k
                 /\ last.events[i] = "save"
                 /\ last.events[j] = "close"
  /\ (Ran /\ (last.raised \/ ~last.ok) => last.after = last.before)
  /\ \A p \in deleted : NewPath(p) \in written

C10_Witness ==
  /\ HasEvent(last, "remove")
  /\ last.path \in deleted
  /\ last.new_path \in written

====
